---- MODULE Spec2Model ----
(***************************************************************************)
(* Model of the Web Audio Instrument: the frequency-layer mixer of         *)
(* AudioEngine (audioEngine.js) and its buffer sources, the sample /       *)
(* loop-point registry of FileHandler (fileHandler.js) with its loading    *)
(* and playback of samples and videos, App.playSample and the step         *)
(* sequencer of App (main.js), SongDissector (dissector/index.js) and      *)
(* FilterEffect (filter.js).                                               *)
(*                                                                         *)
(* Numbers that the program keeps as floats (volumes, gains) are kept in   *)
(* fixed point: the integer One stands for 1.0, so 1 stands for 0.5 and    *)
(* One + 1 for 1.5.  Times (durations, loop points) are whole seconds.     *)
(***************************************************************************)
EXTENDS Integers, Sequences, FiniteSets, TLC

VARIABLES
    layers,            \* AudioEngine.layers: id -> [gain, mute, solo, volume]
    audioBuffers,      \* FileHandler.audioBuffers: id -> [duration]
    videoElements,     \* FileHandler.videoElements: id -> [duration]
    mediaSourceNodes,  \* FileHandler.mediaSourceNodes: set of ids with a node
    loopPoints,        \* FileHandler.loopPoints: id -> [start, end]
    loads,             \* per file name with a load in flight: the position of its
                       \* processAudioFile or processVideoFile
    registered,        \* per sample id: the duration its last registration stored
    batch,             \* the processFiles call in progress or resolved last
    lastCall,          \* the call or callback that ran last, with its outcome
    before,            \* {what the last call replaced}: the layers for a toggle of
                       \* a configured layer, the loop points of the sample (or
                       \* null) for a registration, the ids that were stored for
                       \* dispose; {} after any other call
    songDissector,     \* SongDissector: [isProcessing, progress]
    runs,              \* the accepted processFile calls in order: the position of
                       \* each one's extraction and separation
    callbackLog,       \* what the callbacks of the dissector received since the
                       \* last accepted processFile call
    buffers,           \* AudioEngine.buffers: the sample ids with a decoded buffer
    activeSources,     \* AudioEngine.activeSources: sample id -> source node
    sources,           \* the buffer source nodes created so far, in order: the
                       \* sample and whether the node is playing, stopped or ended
    app,               \* App: [isPlaying, currentBPM, sequencerInterval,
                       \* currentStep, totalSteps]
    intervals,         \* the timers setInterval has created so far, in order:
                       \* running or cleared
    videoState,        \* per sample id whose video element was played or stopped:
                       \* [loop, paused, currentTime, listeners, _loopHandler,
                       \* handlers] of the element
    filterEffect       \* FilterEffect.params, which the filter node mirrors:
                       \* [type, frequency, Q, gain]

vars == <<layers, audioBuffers, videoElements, mediaSourceNodes, loopPoints,
          loads, registered, batch, lastCall, before,
          songDissector, runs, callbackLog, buffers, activeSources, sources,
          app, intervals, videoState, filterEffect>>

fileVars == <<audioBuffers, videoElements, mediaSourceNodes, loopPoints, loads,
              registered>>

dissectorVars == <<songDissector, runs, callbackLog>>

sourceVars == <<buffers, activeSources, sources>>

sequencerVars == <<app, intervals>>

\* The components beside the layer mixer and the file handler.
compVars == <<dissectorVars, sourceVars, sequencerVars, videoState, filterEffect>>

\* The components that hold no state of a video element.
audioVars == <<dissectorVars, sourceVars, sequencerVars, filterEffect>>

\* The layer mixer and the file handler.
coreVars == <<layers, fileVars, batch, before>>

\* What the handlers of the dissector leave alone, and likewise for the
\* buffer sources of the engine.
exceptDissector == <<coreVars, sourceVars, sequencerVars, videoState, filterEffect>>
exceptSources == <<coreVars, dissectorVars, sequencerVars, videoState, filterEffect>>
exceptSequencer == <<coreVars, dissectorVars, videoState, filterEffect>>
exceptFilter == <<coreVars, dissectorVars, sourceVars, sequencerVars, videoState>>

----------------------------------------------------------------------------
(* Bounds and program constants *)

\* 1.0 in fixed point: the number of steps volumes are resolved to in [0,1].
One == 2

\* Volumes a caller may pass: below 0, the ends of [0,1], one volume inside
\* and one above 1.
VolumeInputs == {-1, 0, 1, One, One + 1}

\* The configured layers.
LayerIds == {"bass", "mid", "high"}

\* Layer ids a caller may pass; "drums" is not a configured layer.
LayerIdInputs == LayerIds \cup {"drums"}

\* Longest audio buffer or video, in seconds.
MaxDuration == 2

\* Durations a decoded buffer may have.
Durations == 1..MaxDuration

\* Durations a video's metadata may report: an empty media resource reports 0.
VideoDurations == 0..MaxDuration

\* Loop times a caller may pass: a start before 0, an end past every duration.
StartInputs == (-1)..MaxDuration
EndInputs == 0..(MaxDuration + 1)

\* The files a user may drop, as name (a sequence of characters) and MIME type.
Files ==
    { [name |-> <<"a", ".", "m", "p", "3">>, type |-> "audio/mpeg"],
      [name |-> <<"a", ".", "m", "p", "4">>, type |-> "video/mp4"],
      [name |-> <<"b", " ", "c", ".", "w", "a", "v">>, type |-> "audio/wav"] }

FileNames == {f.name : f \in Files}

----------------------------------------------------------------------------
(* Outcomes of a call *)

Undefined == [kind |-> "undefined"]
Returned(v) == [kind |-> "value", val |-> v]
Thrown(msg) == [kind |-> "throw", msg |-> msg]

\* A JS reference that is null is the empty sequence, a node is <<value>>.
Null == <<>>

Call(op, args, ret) == [op |-> op, args |-> args, ret |-> ret]

----------------------------------------------------------------------------
(* AudioEngine *)

\* constructor: the three layers, without gain nodes.
InitLayers ==
    [id \in LayerIds |-> [gain |-> Null, mute |-> FALSE, solo |-> FALSE, volume |-> One]]

\* createFrequencyLayers: each layer gets a gain node set to the layer's volume.
createFrequencyLayers(ls) ==
    [id \in LayerIds |-> [ls[id] EXCEPT !.gain = <<ls[id].volume>>]]

\* initialize(): builds the audio graph; the layer part is createFrequencyLayers.
\* It runs once: its caller returns early when the audio context exists.
initialize ==
    /\ \A id \in LayerIds : layers[id].gain = Null
    /\ layers' = createFrequencyLayers(layers)
    /\ lastCall' = Call("initialize", <<>>, Returned("audioContext"))
    /\ before' = {}
    /\ UNCHANGED <<fileVars, batch, compVars>>

\* const anySolo = Object.values(this.layers).some(layer => layer.solo)
anySolo(ls) == \E id \in LayerIds : ls[id].solo

\* gainValue with a solo that a mute silences.
gainValue_soloRespectsMute(layer, any) ==
    IF any
        THEN (IF layer.solo /\ ~layer.mute THEN layer.volume ELSE 0)
        ELSE (IF layer.mute THEN 0 ELSE layer.volume)

\* The gainValue computed in the loop body of updateLayerStates.
gainValue(layer, any) ==
    IF any
        THEN (IF layer.solo THEN layer.volume ELSE 0)
        ELSE (IF layer.mute THEN 0 ELSE layer.volume)

\* updateLayerStates that looks at the solo flags only.
updateLayerStatesOf_soloOnly(ls) ==
    [id \in LayerIds |->
        IF ls[id].gain = Null
            THEN ls[id]
            ELSE [ls[id] EXCEPT !.gain =
                    <<IF anySolo(ls) /\ ~ls[id].solo THEN 0 ELSE ls[id].volume>>]]

\* updateLayerStates as a function of the layers: every layer that has a gain
\* node gets its gain set; layers without one are skipped.
updateLayerStatesOf(ls) ==
    [id \in LayerIds |->
        IF ls[id].gain = Null
            THEN ls[id]
            ELSE [ls[id] EXCEPT !.gain = <<gainValue(ls[id], anySolo(ls))>>]]

updateLayerStates ==
    /\ layers' = updateLayerStatesOf(layers)
    /\ lastCall' = Call("updateLayerStates", <<>>, Undefined)
    /\ before' = {}
    /\ UNCHANGED <<fileVars, batch, compVars>>

\* this.layers[layerId] is truthy for the configured layers and undefined for
\* every other id a caller passes here (ids that name nothing in the object).
hasLayer(ls, layerId) == layerId \in DOMAIN ls

setLayerVolume(layerId, value) ==
    /\ IF hasLayer(layers, layerId) /\ layers[layerId].gain # Null
          THEN layers' = [layers EXCEPT ![layerId].volume = value,
                                        ![layerId].gain = <<value>>]
          ELSE layers' = layers
    /\ lastCall' = Call("setLayerVolume", <<layerId, value>>, Undefined)
    /\ before' = {}
    /\ UNCHANGED <<fileVars, batch, compVars>>

\* Result and next layers of toggleLayerSolo.
toggleLayerSoloOf(ls, layerId) ==
    IF ~hasLayer(ls, layerId)
        THEN [layers |-> ls, ret |-> Undefined]
        ELSE LET flipped == [ls EXCEPT ![layerId].solo = ~ls[layerId].solo]
             IN  [layers |-> updateLayerStatesOf(flipped),
                  ret |-> Returned(flipped[layerId].solo)]

toggleLayerSolo(layerId) ==
    LET r == toggleLayerSoloOf(layers, layerId)
    IN  /\ layers' = r.layers
        /\ lastCall' = Call("toggleLayerSolo", <<layerId>>, r.ret)
        /\ before' = IF hasLayer(layers, layerId) THEN {layers} ELSE {}
        /\ UNCHANGED <<fileVars, batch, compVars>>

\* toggleLayerMute without its early return: the access to the flag of a
\* layer that does not exist throws.
toggleLayerMuteOf_noGuard(ls, layerId) ==
    IF ~hasLayer(ls, layerId)
        THEN [layers |-> ls, ret |-> Thrown("TypeError")]
        ELSE LET flipped == [ls EXCEPT ![layerId].mute = ~ls[layerId].mute]
             IN  [layers |-> updateLayerStatesOf(flipped),
                  ret |-> Returned(flipped[layerId].mute)]

\* Result and next layers of toggleLayerMute.
toggleLayerMuteOf(ls, layerId) ==
    IF ~hasLayer(ls, layerId)
        THEN [layers |-> ls, ret |-> Undefined]
        ELSE LET flipped == [ls EXCEPT ![layerId].mute = ~ls[layerId].mute]
             IN  [layers |-> updateLayerStatesOf(flipped),
                  ret |-> Returned(flipped[layerId].mute)]

toggleLayerMute(layerId) ==
    LET r == toggleLayerMuteOf(layers, layerId)
    IN  /\ layers' = r.layers
        /\ lastCall' = Call("toggleLayerMute", <<layerId>>, r.ret)
        /\ before' = IF hasLayer(layers, layerId) THEN {layers} ELSE {}
        /\ UNCHANGED <<fileVars, batch, compVars>>

----------------------------------------------------------------------------
(* FileHandler *)

supportedAudioTypes == {"audio/mpeg", "audio/wav", "audio/ogg", "audio/x-m4a"}
supportedVideoTypes == {"video/mp4", "video/webm"}

isAudioFile(file) == file.type \in supportedAudioTypes
isVideoFile(file) == file.type \in supportedVideoTypes

Letters ==
    {"a", "b", "c", "d", "e", "f", "g", "h", "i", "j", "k", "l", "m",
     "n", "o", "p", "q", "r", "s", "t", "u", "v", "w", "x", "y", "z",
     "A", "B", "C", "D", "E", "F", "G", "H", "I", "J", "K", "L", "M",
     "N", "O", "P", "Q", "R", "S", "T", "U", "V", "W", "X", "Y", "Z"}
Digits == {"0", "1", "2", "3", "4", "5", "6", "7", "8", "9"}
WhiteSpace == {" "}

\* Index of the last "." of name, 0 when there is none.
RECURSIVE LastDot(_, _)
LastDot(name, i) ==
    IF i = 0 THEN 0
    ELSE IF name[i] = "." THEN i
    ELSE LastDot(name, i - 1)

\* name.replace(/\.[^/.]+$/, ""): drops a final "." followed by one or more
\* characters that are neither "/" nor ".".
RemoveExtension(name) ==
    LET i == LastDot(name, Len(name))
    IN  IF i > 0 /\ i < Len(name) /\ \A j \in (i + 1)..Len(name) : name[j] # "/"
            THEN SubSeq(name, 1, i - 1)
            ELSE name

\* s.replace(/\s+/g, '_'): every run of white space becomes one underscore.
RECURSIVE SpacesToUnderscore(_)
SpacesToUnderscore(s) ==
    IF s = <<>> THEN <<>>
    ELSE IF Head(s) \in WhiteSpace
        THEN IF Len(s) > 1 /\ s[2] \in WhiteSpace
                THEN SpacesToUnderscore(Tail(s))
                ELSE <<"_">> \o SpacesToUnderscore(Tail(s))
        ELSE <<Head(s)>> \o SpacesToUnderscore(Tail(s))

\* s.replace(/[^a-zA-Z0-9_]/g, '')
RECURSIVE KeepWordChars(_)
KeepWordChars(s) ==
    IF s = <<>> THEN <<>>
    ELSE IF Head(s) \in Letters \cup Digits \cup {"_"}
        THEN <<Head(s)>> \o KeepWordChars(Tail(s))
        ELSE KeepWordChars(Tail(s))

generateSampleId(file) == KeepWordChars(SpacesToUnderscore(RemoveExtension(file.name)))

\* generateSampleId of every file, computed once.
sampleIdOf == [f \in Files |-> generateSampleId(f)]

\* The ids the files map to; a caller may pass any of them, loaded or not.
SampleIds == {generateSampleId(f) : f \in Files}
SampleIdInputs == SampleIds

\* m[id]?.duration, with undefined as 0: both are falsy operands of ||.
DurationIn(m, id) == IF id \in DOMAIN m THEN m[id].duration ELSE 0

\* a || b on numbers.
OrElse(a, b) == IF a # 0 THEN a ELSE b

\* obj[id] || null
OrNull(m, id) == IF id \in DOMAIN m THEN <<m[id]>> ELSE Null

\* obj[id] = value
Put(m, id, value) == (id :> value) @@ m

\* delete obj[id]
Delete(m, id) == IF id \in DOMAIN m THEN [k \in DOMAIN m \ {id} |-> m[k]] ELSE m

FileOf(name) == CHOOSE f \in Files : f.name = name

\* The collections of the file handler, as one value.
stored ==
    [audioBuffers |-> audioBuffers, videoElements |-> videoElements,
     mediaSourceNodes |-> mediaSourceNodes, loopPoints |-> loopPoints]

\* What decodeAudioData may answer: <<d>> for a buffer of duration d, or << >>
\* for a rejection.  The duration of a buffer decoded from a recording is what
\* the recorder captured in real time, not the duration of the video.
DecodeOutcomes == {<<>>} \cup {<<d>> : d \in Durations}

\* Loop points with the two times the wrong way round.
fullLoopPoints_swapped(duration) == [start |-> duration, end |-> 0]

\* { start: 0, end: duration }: the loop points a registration stores.
fullLoopPoints(duration) == [start |-> 0, end |-> duration]

\* Where the load of a file is: "idle" when none is in flight.
Stage(name) == IF name \in DOMAIN loads THEN loads[name] ELSE "idle"

\* The loads in flight once the load of name is at stage.
SetStage(ls, name, stage) ==
    IF stage # "idle" THEN Put(ls, name, stage)
    ELSE IF DOMAIN ls \subseteq {name} THEN <<>>
    ELSE [n \in DOMAIN ls \ {name} |-> ls[n]]

\* How a load whose promise settles goes on: a file of the processFiles call in
\* progress has the call's then and catch handlers waiting for the outcome; the
\* promise of a direct call has no handler in this model.
Settled(name, outcome) ==
    IF batch.state = "pending" /\ name \in batch.waiting THEN outcome ELSE "idle"

\* processAudioFile(file): the promise is created and the read starts.
processAudioFile(file) ==
    /\ isAudioFile(file)
    /\ Stage(file.name) = "idle"
    /\ loads' = SetStage(loads, file.name, "reading")
    /\ lastCall' = Call("processAudioFile", <<file.name>>, Returned("promise"))
    /\ UNCHANGED <<audioBuffers, videoElements, mediaSourceNodes, loopPoints, registered>>
    /\ before' = {}
    /\ UNCHANGED <<layers, batch, compVars>>

\* fileReader.onerror: the promise is rejected.
audioReaderOnerror(file) ==
    /\ Stage(file.name) = "reading"
    /\ loads' = SetStage(loads, file.name, Settled(file.name, "rejected"))
    /\ lastCall' = Call("fileReader.onerror", <<file.name>>, Thrown("Error reading audio file"))
    /\ UNCHANGED <<audioBuffers, videoElements, mediaSourceNodes, loopPoints, registered>>
    /\ before' = {}
    /\ UNCHANGED <<layers, batch, compVars>>

\* fileReader.onload that leaves the loop points of a sample that has some.
audioReaderOnload_keepsRegion(file, decoded) ==
    LET sampleId == sampleIdOf[file]
    IN  /\ Stage(file.name) = "reading"
        /\ loads' = SetStage(loads, file.name,
                        Settled(file.name, IF decoded = <<>> THEN "rejected" ELSE "fulfilled"))
        /\ IF decoded = <<>>
              THEN /\ UNCHANGED <<audioBuffers, loopPoints, registered>>
                   /\ lastCall' = Call("fileReader.onload", <<file.name>>,
                                       Thrown("Failed to decode audio data"))
              ELSE /\ audioBuffers' = Put(audioBuffers, sampleId, [duration |-> decoded[1]])
                   /\ loopPoints' = IF sampleId \in DOMAIN loopPoints
                                        THEN loopPoints
                                        ELSE Put(loopPoints, sampleId, fullLoopPoints(decoded[1]))
                   /\ registered' = Put(registered, sampleId, decoded[1])
                   /\ lastCall' = Call("fileReader.onload", <<file.name>>, Returned(sampleId))
        /\ UNCHANGED <<videoElements, mediaSourceNodes>>
        /\ before' = IF decoded = <<>> THEN {} ELSE {OrNull(loopPoints, sampleId)}
        /\ UNCHANGED <<layers, batch, compVars>>

\* fileReader.onload.  Nothing is written before decodeAudioData answers;
\* with a decoded buffer, the buffer and the full-length loop
\* points are stored and the promise resolves; with a failure the catch rejects.
audioReaderOnload(file, decoded) ==
    LET sampleId == sampleIdOf[file]
    IN  /\ Stage(file.name) = "reading"
        /\ loads' = SetStage(loads, file.name,
                        Settled(file.name, IF decoded = <<>> THEN "rejected" ELSE "fulfilled"))
        /\ IF decoded = <<>>
              THEN /\ UNCHANGED <<audioBuffers, loopPoints, registered>>
                   /\ lastCall' = Call("fileReader.onload", <<file.name>>,
                                       Thrown("Failed to decode audio data"))
              ELSE /\ audioBuffers' = Put(audioBuffers, sampleId, [duration |-> decoded[1]])
                   /\ loopPoints' = Put(loopPoints, sampleId, fullLoopPoints(decoded[1]))
                   /\ registered' = Put(registered, sampleId, decoded[1])
                   /\ lastCall' = Call("fileReader.onload", <<file.name>>, Returned(sampleId))
        /\ UNCHANGED <<videoElements, mediaSourceNodes>>
        /\ before' = IF decoded = <<>> THEN {} ELSE {OrNull(loopPoints, sampleId)}
        /\ UNCHANGED <<layers, batch, compVars>>

\* processVideoFile(file): a video element is created and pointed at the file.
processVideoFile(file) ==
    /\ isVideoFile(file)
    /\ Stage(file.name) = "idle"
    /\ loads' = SetStage(loads, file.name, "metadata")
    /\ lastCall' = Call("processVideoFile", <<file.name>>, Returned("promise"))
    /\ UNCHANGED <<audioBuffers, videoElements, mediaSourceNodes, loopPoints, registered>>
    /\ before' = {}
    /\ UNCHANGED <<layers, batch, compVars>>

\* video.onerror: the promise is rejected.
videoOnerror(file) ==
    /\ Stage(file.name) = "metadata"
    /\ loads' = SetStage(loads, file.name, Settled(file.name, "rejected"))
    /\ lastCall' = Call("video.onerror", <<file.name>>, Thrown("Error loading video file"))
    /\ UNCHANGED <<audioBuffers, videoElements, mediaSourceNodes, loopPoints, registered>>
    /\ before' = {}
    /\ UNCHANGED <<layers, batch, compVars>>

\* video.onloadedmetadata up to its await: the video element and the
\* full-length loop points are stored, then extractAudioFromVideo stores the
\* media source node and starts the recording, unless the MediaRecorder cannot
\* be made (recorderFails) and the promise is rejected.
videoOnloadedmetadata(file, duration, recorderFails) ==
    LET sampleId == sampleIdOf[file]
    IN  /\ Stage(file.name) = "metadata"
        /\ videoElements' = Put(videoElements, sampleId, [duration |-> duration])
        /\ loopPoints' = Put(loopPoints, sampleId, fullLoopPoints(duration))
        /\ registered' = Put(registered, sampleId, duration)
        /\ mediaSourceNodes' = mediaSourceNodes \cup {sampleId}
        /\ loads' = SetStage(loads, file.name,
                        IF recorderFails THEN Settled(file.name, "rejected")
                        ELSE IF duration = 0 THEN "recordingEmpty"
                        ELSE "recording")
        /\ lastCall' = Call("video.onloadedmetadata", <<file.name>>,
                            IF recorderFails
                                THEN Thrown("Failed to process video file")
                                ELSE Undefined)
        /\ UNCHANGED audioBuffers
        /\ before' = {OrNull(loopPoints, sampleId)}
        /\ videoState' = Delete(videoState, sampleId)
        /\ UNCHANGED <<layers, batch, audioVars>>

\* The end of the recording: the setTimeout callback pauses the video and
\* stops the recorder, and mediaRecorder.onstop decodes what was recorded.
\* With a decoded buffer, the buffer is stored under the sample
\* id and the promises resolve; with a failure they are rejected.  A recording
\* of a video of duration 0 is stopped at once and holds nothing to decode.
recorderOnstop(file, decoded) ==
    LET sampleId == sampleIdOf[file]
    IN  /\ Stage(file.name) \in {"recording", "recordingEmpty"}
        /\ Stage(file.name) = "recordingEmpty" => decoded = <<>>
        /\ loads' = SetStage(loads, file.name,
                        Settled(file.name, IF decoded = <<>> THEN "rejected" ELSE "fulfilled"))
        /\ IF decoded = <<>>
              THEN /\ UNCHANGED audioBuffers
                   /\ lastCall' = Call("mediaRecorder.onstop", <<file.name>>,
                                       Thrown("Failed to process extracted audio"))
              ELSE /\ audioBuffers' = Put(audioBuffers, sampleId, [duration |-> decoded[1]])
                   /\ lastCall' = Call("mediaRecorder.onstop", <<file.name>>,
                                       Returned(sampleId))
        /\ UNCHANGED <<videoElements, mediaSourceNodes, loopPoints, registered>>
        /\ before' = {}
        /\ UNCHANGED <<layers, batch, compVars>>

\* setLoopPoints with a store of the start time ahead of the check of the end.
setLoopPointsOf_startFirst(bufs, vids, lps, sampleId, startTime, endTime) ==
    IF sampleId \notin DOMAIN bufs /\ sampleId \notin DOMAIN vids
        THEN [loopPoints |-> lps, ret |-> Thrown("Sample not found")]
    ELSE LET duration == OrElse(DurationIn(bufs, sampleId), DurationIn(vids, sampleId))
         IN  IF startTime < 0 \/ startTime >= duration
                THEN [loopPoints |-> lps, ret |-> Thrown("Invalid loop start time")]
             ELSE IF endTime <= startTime \/ endTime > duration
                THEN [loopPoints |->
                        IF sampleId \in DOMAIN lps
                            THEN [lps EXCEPT ![sampleId].start = startTime]
                            ELSE lps,
                      ret |-> Thrown("Invalid loop end time")]
             ELSE LET region == [start |-> startTime, end |-> endTime]
                  IN  [loopPoints |-> Put(lps, sampleId, region), ret |-> Returned(region)]

\* setLoopPoints without the look-up of the sample.
setLoopPointsOf_noLookup(bufs, vids, lps, sampleId, startTime, endTime) ==
    LET duration == OrElse(DurationIn(bufs, sampleId), DurationIn(vids, sampleId))
    IN  IF startTime < 0 \/ startTime >= duration
            THEN [loopPoints |-> lps, ret |-> Thrown("Invalid loop start time")]
        ELSE IF endTime <= startTime \/ endTime > duration
            THEN [loopPoints |-> lps, ret |-> Thrown("Invalid loop end time")]
        ELSE LET region == [start |-> startTime, end |-> endTime]
             IN  [loopPoints |-> Put(lps, sampleId, region), ret |-> Returned(region)]

\* Result and next loop points of setLoopPoints.
setLoopPointsOf(bufs, vids, lps, sampleId, startTime, endTime) ==
    IF sampleId \notin DOMAIN bufs /\ sampleId \notin DOMAIN vids
        THEN [loopPoints |-> lps, ret |-> Thrown("Sample not found")]
    ELSE LET duration == OrElse(DurationIn(bufs, sampleId), DurationIn(vids, sampleId))
         IN  IF startTime < 0 \/ startTime >= duration
                THEN [loopPoints |-> lps, ret |-> Thrown("Invalid loop start time")]
             ELSE IF endTime <= startTime \/ endTime > duration
                THEN [loopPoints |-> lps, ret |-> Thrown("Invalid loop end time")]
             ELSE LET region == [start |-> startTime, end |-> endTime]
                  IN  [loopPoints |-> Put(lps, sampleId, region), ret |-> Returned(region)]

\* setLoopPoints(sampleId, startTime, endTime) for every pair of times a caller
\* may pass.  The call is recorded with its sample id and its outcome; the
\* times of a successful call are those of the region it returns.
setLoopPoints(sampleId) ==
    \E r \in { setLoopPointsOf(audioBuffers, videoElements, loopPoints,
                               sampleId, startTime, endTime) :
                    startTime \in StartInputs, endTime \in EndInputs } :
        /\ loopPoints' = r.loopPoints
        /\ lastCall' = Call("setLoopPoints", <<sampleId>>, r.ret)
        /\ UNCHANGED <<audioBuffers, videoElements, mediaSourceNodes, loads, registered>>
        /\ before' = {}
        /\ UNCHANGED <<layers, batch, compVars>>

\* dispose() without this.loopPoints = {}.
dispose_keepsLoopPoints ==
    /\ audioBuffers' = <<>>
    /\ videoElements' = <<>>
    /\ mediaSourceNodes' = {}
    /\ registered' = <<>>
    /\ lastCall' = Call("dispose", <<>>, Undefined)
    /\ UNCHANGED <<loads, loopPoints>>
    /\ before' = {DOMAIN audioBuffers \cup DOMAIN videoElements}
    /\ videoState' = <<>>
    /\ UNCHANGED <<layers, batch, audioVars>>

\* dispose(): all four collections are emptied.
dispose ==
    /\ audioBuffers' = <<>>
    /\ videoElements' = <<>>
    /\ mediaSourceNodes' = {}
    /\ loopPoints' = <<>>
    /\ registered' = <<>>
    /\ lastCall' = Call("dispose", <<>>, Undefined)
    /\ UNCHANGED loads
    /\ before' = {DOMAIN audioBuffers \cup DOMAIN videoElements}
    /\ videoState' = <<>>
    /\ UNCHANGED <<layers, batch, audioVars>>

\* this.loopPoints[sampleId] || null
\* getLoopPoints with the full-length region of an empty sample as its default.
getLoopPointsOf_default(lps, sampleId) ==
    IF sampleId \in DOMAIN lps THEN <<lps[sampleId]>> ELSE <<[start |-> 0, end |-> 0]>>

getLoopPointsOf(lps, sampleId) == OrNull(lps, sampleId)

getLoopPoints(sampleId) ==
    /\ lastCall' = Call("getLoopPoints", <<sampleId>>,
                        Returned(getLoopPointsOf(loopPoints, sampleId)))
    /\ before' = {}
    /\ UNCHANGED fileVars
    /\ UNCHANGED <<layers, batch, compVars>>

\* An AudioBufferSourceNode as createBufferSource() makes it: no loop, and
\* loopStart = loopEnd = 0, which stands for the whole buffer.
createBufferSource(buffer) ==
    [buffer |-> buffer, loop |-> FALSE, loopStart |-> 0, loopEnd |-> 0]

\* playSample that turns looping on without the loop points of the sample.
playSampleOf_wholeBuffer(bufs, lps, sampleId, loop) ==
    IF sampleId \notin DOMAIN bufs
        THEN Thrown("Sample not found")
    ELSE Returned([createBufferSource(bufs[sampleId]) EXCEPT !.loop = loop])

\* FileHandler.playSample(sampleId, destination, loop): the source it returns.
playSampleOf(bufs, lps, sampleId, loop) ==
    IF sampleId \notin DOMAIN bufs
        THEN Thrown("Sample not found")
    ELSE LET source == createBufferSource(bufs[sampleId])
         IN  IF loop /\ sampleId \in DOMAIN lps
                THEN Returned([source EXCEPT !.loop = TRUE,
                                             !.loopStart = lps[sampleId].start,
                                             !.loopEnd = lps[sampleId].end])
                ELSE Returned([source EXCEPT !.loop = loop])

playSample(sampleId, loop) ==
    /\ lastCall' = Call("playSample", <<sampleId, loop>>,
                        playSampleOf(audioBuffers, loopPoints, sampleId, loop))
    /\ before' = {}
    /\ UNCHANGED fileVars
    /\ UNCHANGED <<layers, batch, compVars>>

\* A source node that was started and handed on, by a call that returns nothing.
Started(source) == [kind |-> "started", val |-> source]

\* App.playSample(sampleId) of main.js: the source it starts.
App_playSampleOf(bufs, lps, sampleId) ==
    IF sampleId \notin DOMAIN bufs
        THEN Undefined
    ELSE LET source == createBufferSource(bufs[sampleId])
             points == getLoopPointsOf(lps, sampleId)
         IN  IF points # Null
                THEN Started([source EXCEPT !.loop = TRUE,
                                            !.loopStart = points[1].start,
                                            !.loopEnd = points[1].end])
                ELSE Started(source)

\* getAllSamples(): one entry per stored audio buffer.
getAllSamplesOf(bufs, vids, lps) ==
    { [id |-> id,
       type |-> IF id \in DOMAIN vids THEN "video" ELSE "audio",
       duration |-> bufs[id].duration,
       loopPoints |-> getLoopPointsOf(lps, id)] : id \in DOMAIN bufs }

\* A file of a type the handler does not support.
UnsupportedFile == [name |-> <<"n", ".", "t", "x", "t">>, type |-> "text/plain"]

\* The files a user may drop at once.
DroppedFiles == Files \cup {UnsupportedFile}

\* The elements of a finite set, in some order.
RECURSIVE SeqOf(_)
SeqOf(set) ==
    IF set = {} THEN <<>>
    ELSE LET x == CHOOSE y \in set : TRUE
         IN  <<x>> \o SeqOf(set \ {x})

\* No processFiles call was made yet.  A call is a record of its state
\* ("pending" or "resolved"), the names of its files, the files whose chained
\* promise is pending, the three result lists, the number of onFileLoaded and
\* onFileLoadError calls, the number of onAllFilesProcessed calls, and the
\* number of per-file calls made before onAllFilesProcessed.
NoBatch == [state |-> "none"]

\* processFiles(files) up to its await: every audio and video file gets its
\* load started and its then and catch handlers chained; every other file goes
\* to results.unsupported and is reported through onFileLoadError.
processFiles(files) ==
    LET supported == {f \in files : isAudioFile(f) \/ isVideoFile(f)}
        rejected == {f.name : f \in files \ supported}
    IN  /\ batch.state # "pending"
        /\ \A f \in supported : Stage(f.name) = "idle"
        /\ loads' = [name \in DOMAIN loads \cup {f.name : f \in supported} |->
                        IF \E f \in files : f.name = name /\ isAudioFile(f)
                            THEN "reading"
                        ELSE IF \E f \in files : f.name = name /\ isVideoFile(f)
                            THEN "metadata"
                        ELSE loads[name]]
        /\ batch' = [state |-> "pending",
                     files |-> {f.name : f \in files},
                     waiting |-> {f.name : f \in supported},
                     loaded |-> <<>>, errors |-> <<>>,
                     unsupported |-> SeqOf(rejected),
                     perFile |-> Cardinality(rejected),
                     allProcessed |-> 0, perFileBefore |-> 0]
        /\ lastCall' = Call("processFiles", <<{f.name : f \in files}>>, Returned("promise"))
        /\ before' = {}
        /\ UNCHANGED <<audioBuffers, videoElements, mediaSourceNodes, loopPoints, registered>>
        /\ UNCHANGED <<layers, compVars>>

\* The then handler of a file whose load promise was fulfilled.
thenLoaded(file) ==
    /\ Stage(file.name) = "fulfilled"
    /\ loads' = SetStage(loads, file.name, "idle")
    /\ batch' = [batch EXCEPT !.loaded = Append(@, file.name),
                              !.perFile = @ + 1,
                              !.waiting = @ \ {file.name}]
    /\ lastCall' = Call("onFileLoaded", <<file.name>>, Undefined)
    /\ before' = {}
    /\ UNCHANGED <<audioBuffers, videoElements, mediaSourceNodes, loopPoints, registered>>
    /\ UNCHANGED <<layers, compVars>>

\* The catch handler of a file whose load promise was rejected.
catchError(file) ==
    /\ Stage(file.name) = "rejected"
    /\ loads' = SetStage(loads, file.name, "idle")
    /\ batch' = [batch EXCEPT !.errors = Append(@, file.name),
                              !.perFile = @ + 1,
                              !.waiting = @ \ {file.name}]
    /\ lastCall' = Call("onFileLoadError", <<file.name>>, Undefined)
    /\ before' = {}
    /\ UNCHANGED <<audioBuffers, videoElements, mediaSourceNodes, loopPoints, registered>>
    /\ UNCHANGED <<layers, compVars>>

\* Promise.race(promises): settled as soon as one chained promise is.
PromiseAll_race(b) == b.waiting = {} \/ Cardinality(b.waiting) < Cardinality(b.files)

\* Promise.all(promises): fulfilled once every chained promise is.
PromiseAll(b) == b.waiting = {}

\* processFiles after its await: onAllFilesProcessed(results), return results.
processFilesResume ==
    /\ batch.state = "pending"
    /\ PromiseAll(batch)
    /\ batch' = [batch EXCEPT !.state = "resolved",
                              !.allProcessed = @ + 1,
                              !.perFileBefore = batch.perFile]
    /\ lastCall' = Call("onAllFilesProcessed", <<>>, Undefined)
    /\ before' = {}
    /\ UNCHANGED <<audioBuffers, videoElements, mediaSourceNodes, loopPoints, loads, registered>>
    /\ UNCHANGED <<layers, compVars>>

----------------------------------------------------------------------------
(* SongDissector (dissector/index.js), with the callbacks App installs *)

\* Progress is kept in half percents: the integer Percent stands for 1%, so
\* that the steps of 2.5% of simulateProcessing are whole numbers.
Percent == 2

\* const steps of simulateProcessing.
steps == 20

\* The arguments of separateComponents' call simulateProcessing(40, 90).
startProgress == 40 * Percent
endProgress == 90 * Percent
progressStep == (endProgress - startProgress) \div steps

\* Most processFile calls that are accepted in one behaviour.
MaxRuns == 2

\* Files a caller may pass to processFile: none, an MP4 video, an MP3.
DissectorFiles == {Null, <<[type |-> "video/mp4"]>>, <<[type |-> "audio/mpeg"]>>}

Pending == [kind |-> "pending"]

Min(a, b) == IF a < b THEN a ELSE b
Max(a, b) == IF a > b THEN a ELSE b

\* updateProgress(progress): the dissector after this.progress is assigned.
updateProgress(dissector, progress) ==
    [dissector EXCEPT !.progress = Min(100 * Percent, Max(0, progress))]

\* this.onProgressUpdate(this.progress) of updateProgress: the callback of
\* App.setupDissectorCallbacks receives the value.
onProgressUpdate(log, dissector) ==
    [log EXCEPT !.progress = Append(@, dissector.progress)]

\* this.onDissectionComplete(components)
onDissectionComplete(log) == [log EXCEPT !.complete = @ + 1]

\* this.onDissectionError(error)
onDissectionError(log) == [log EXCEPT !.error = @ + 1]

\* The end of a processFile call: the values passed to it so far are its own.
EndOfRun(log) == [log EXCEPT !.ended = Len(log.progress)]

NewRun == [stage |-> "reading", promise |-> "pending", currentStep |-> 0]

NewLog == [progress |-> <<>>, complete |-> 0, error |-> 0, ended |-> 0]

\* The handlers of run r may run.
InStage(r, stage) == r \in DOMAIN runs /\ runs[r].stage = stage

\* processFile(file) up to its first await.
processFile_noBusyGuard(file) ==
    IF file = Null \/ file[1].type # "video/mp4"
    THEN /\ lastCall' = Call("processFile", <<file>>,
                             Thrown("Invalid file type. Please provide an MP4 file."))
         /\ UNCHANGED dissectorVars
         /\ UNCHANGED exceptDissector
    ELSE /\ Len(runs) < MaxRuns
         /\ LET started == updateProgress([songDissector EXCEPT !.isProcessing = TRUE,
                                                                !.progress = 0], 0)
            IN  /\ songDissector' = started
                /\ callbackLog' = onProgressUpdate(NewLog, started)
         /\ runs' = Append(runs, NewRun)
         /\ lastCall' = Call("processFile", <<file>>, Pending)
         /\ UNCHANGED exceptDissector

processFile(file) ==
    IF songDissector.isProcessing
    THEN /\ lastCall' = Call("processFile", <<file>>, Thrown("Already processing a file"))
         /\ UNCHANGED dissectorVars
         /\ UNCHANGED exceptDissector
    ELSE processFile_noBusyGuard(file)

\* reject(error) of extractAudioFromFile in run r, and then the catch block of
\* the processFile call that awaits the promise; nothing when the promise is
\* settled already.
rejectExtraction_noCallback(r, stage, op) ==
    /\ runs' = [runs EXCEPT ![r].stage = stage,
                            ![r].promise = IF @ = "pending" THEN "rejected" ELSE @]
    /\ IF runs[r].promise = "pending"
       THEN /\ songDissector' = [songDissector EXCEPT !.isProcessing = FALSE]
            /\ callbackLog' = EndOfRun(callbackLog)
       ELSE UNCHANGED <<songDissector, callbackLog>>
    /\ lastCall' = Call(op, <<r>>, Thrown("reject"))
    /\ UNCHANGED exceptDissector

rejectExtraction(r, stage, op) ==
    /\ runs' = [runs EXCEPT ![r].stage = stage,
                            ![r].promise = IF @ = "pending" THEN "rejected" ELSE @]
    /\ IF runs[r].promise = "pending"
       THEN /\ songDissector' = [songDissector EXCEPT !.isProcessing = FALSE]
            /\ callbackLog' = EndOfRun(onDissectionError(callbackLog))
       ELSE UNCHANGED <<songDissector, callbackLog>>
    /\ lastCall' = Call(op, <<r>>, Thrown("reject"))
    /\ UNCHANGED exceptDissector

\* fileReader.onerror
fileReaderOnerror(r) ==
    /\ InStage(r, "reading")
    /\ rejectExtraction(r, "stopped", "fileReader.onerror")

\* fileReader.onload: updateProgress(20), then the video element is created.
fileReaderOnload(r) ==
    /\ InStage(r, "reading")
    /\ LET updated == updateProgress(songDissector, 20 * Percent)
       IN  /\ songDissector' = updated
           /\ callbackLog' = onProgressUpdate(callbackLog, updated)
    /\ runs' = [runs EXCEPT ![r].stage = "loading"]
    /\ lastCall' = Call("fileReader.onload", <<r>>, Undefined)
    /\ UNCHANGED exceptDissector

\* video.onloadedmetadata: the recorder is set up and started with a timer of
\* the video's duration, or the set up throws and the catch block rejects.
videoOnloadedmetadataStart(r) ==
    /\ InStage(r, "loading")
    /\ runs' = [runs EXCEPT ![r].stage = "recording"]
    /\ lastCall' = Call("video.onloadedmetadata", <<r>>, Undefined)
    /\ UNCHANGED <<songDissector, callbackLog>>
    /\ UNCHANGED exceptDissector

videoOnloadedmetadataThrows(r) ==
    /\ InStage(r, "loading")
    /\ rejectExtraction(r, "stopped", "video.onloadedmetadata")

\* video.onerror: the element reports an error of its resource, before the
\* metadata is known or while the video plays for the recorder; the timer of
\* a recording is not cleared.
dissectorVideoOnerror(r) ==
    /\ \/ InStage(r, "loading")
       \/ InStage(r, "recording") /\ runs[r].promise = "pending"
    /\ rejectExtraction(r, IF runs[r].stage = "loading" THEN "stopped" ELSE "recording",
                        "video.onerror")

\* The timer of the recording, mediaRecorder.stop() and mediaRecorder.onstop up
\* to its first await: updateProgress(40).
mediaRecorderOnstop(r) ==
    /\ InStage(r, "recording")
    /\ LET updated == updateProgress(songDissector, 40 * Percent)
       IN  /\ songDissector' = updated
           /\ callbackLog' = onProgressUpdate(callbackLog, updated)
    /\ runs' = [runs EXCEPT ![r].stage = "decoding"]
    /\ lastCall' = Call("mediaRecorder.onstop", <<r>>, Undefined)
    /\ UNCHANGED exceptDissector

\* mediaRecorder.onstop after decodeAudioData failed.
decodeFails(r) ==
    /\ InStage(r, "decoding")
    /\ rejectExtraction(r, "stopped", "decodeAudioData")

\* mediaRecorder.onstop after decodeAudioData: resolve(audioBuffer), and then
\* processFile calls separateComponents, which starts simulateProcessing.
decodeResolves(r) ==
    /\ InStage(r, "decoding")
    /\ runs' = [runs EXCEPT ![r].stage = IF runs[r].promise = "pending"
                                         THEN "separating" ELSE "stopped",
                            ![r].promise = IF @ = "pending" THEN "resolved" ELSE @]
    /\ lastCall' = Call("decodeAudioData", <<r>>, Undefined)
    /\ UNCHANGED <<songDissector, callbackLog>>
    /\ UNCHANGED exceptDissector

\* processFile after separateComponents: isProcessing = false,
\* updateProgress(100), onDissectionComplete(components).
completeRun(dissector, log) ==
    LET idle == [dissector EXCEPT !.isProcessing = FALSE]
        updated == updateProgress(idle, 100 * Percent)
    IN  [dissector |-> updated,
         log |-> EndOfRun(onDissectionComplete(onProgressUpdate(log, updated)))]

\* The interval of simulateProcessing: currentStep++, updateProgress, and at
\* the last step clearInterval and resolve(), after which processFile ends.
simulateProcessingTick(r) ==
    /\ InStage(r, "separating")
    /\ LET currentStep == runs[r].currentStep + 1
           updated == updateProgress(songDissector,
                                     startProgress + progressStep * currentStep)
           logged == onProgressUpdate(callbackLog, updated)
           completed == completeRun(updated, logged)
       IN  IF currentStep >= steps
           THEN /\ runs' = [runs EXCEPT ![r].currentStep = currentStep,
                                        ![r].stage = "done"]
                /\ songDissector' = completed.dissector
                /\ callbackLog' = completed.log
           ELSE /\ runs' = [runs EXCEPT ![r].currentStep = currentStep]
                /\ songDissector' = updated
                /\ callbackLog' = logged
    /\ lastCall' = Call("simulateProcessing", <<r>>, Undefined)
    /\ UNCHANGED exceptDissector

InitDissector ==
    /\ songDissector = [isProcessing |-> FALSE, progress |-> 0]
    /\ runs = <<>>
    /\ callbackLog = NewLog

----------------------------------------------------------------------------
(* The buffer sources of AudioEngine (audioEngine.js) *)

\* Most buffer source nodes created in one behaviour.
MaxSources == 3

\* Sample ids a caller may pass to the engine.
EngineSampleIds == {"kick", "snare"}

\* fileReader.onload of loadAudioFile for the file of a sample: the decoded
\* buffer is stored, or decodeAudioData fails and the promise is rejected.
loadAudioFileOnload(sampleId, decoded) ==
    /\ IF decoded
       THEN /\ buffers' = buffers \cup {sampleId}
            /\ lastCall' = Call("loadAudioFile", <<sampleId>>, Returned(sampleId))
       ELSE /\ UNCHANGED buffers
            /\ lastCall' = Call("loadAudioFile", <<sampleId>>,
                                Thrown("Failed to decode audio data"))
    /\ UNCHANGED <<activeSources, sources>>
    /\ UNCHANGED exceptSources

\* A source node that source.start(0) has started.
StartedSource(sampleId, loop) ==
    [sampleId |-> sampleId, loop |-> loop, state |-> "playing"]

\* AudioEngine.playSample(sampleId, layered)
AudioEngine_playSample(sampleId, layered) ==
    IF sampleId \notin buffers
    THEN /\ lastCall' = Call("AudioEngine.playSample", <<sampleId, layered>>, Returned(Null))
         /\ UNCHANGED sourceVars
         /\ UNCHANGED exceptSources
    ELSE /\ Len(sources) < MaxSources
         /\ sources' = Append(sources, StartedSource(sampleId, FALSE))
         /\ activeSources' = Put(activeSources, sampleId, Len(sources) + 1)
         /\ lastCall' = Call("AudioEngine.playSample", <<sampleId, layered>>,
                             Returned(<<Len(sources) + 1>>))
         /\ UNCHANGED buffers
         /\ UNCHANGED exceptSources

\* source.stop(): a playing node stops; on a node that has ended or was
\* stopped nothing changes (an exception is caught).
StopNode(nodes, node) ==
    [nodes EXCEPT ![node].state = IF @ = "playing" THEN "stopped" ELSE @]

\* stopSample(sampleId) on the engine's [active, nodes].
stopSampleOf(engine, sampleId) ==
    IF sampleId \in DOMAIN engine.active
    THEN [active |-> Delete(engine.active, sampleId),
          nodes |-> StopNode(engine.nodes, engine.active[sampleId])]
    ELSE engine

\* Object.keys(this.activeSources).forEach(sampleId => this.stopSample(sampleId))
RECURSIVE stopEach(_, _)
stopEach(engine, ids) ==
    IF ids = {}
    THEN engine
    ELSE LET sampleId == CHOOSE id \in ids : TRUE
         IN  stopEach(stopSampleOf(engine, sampleId), ids \ {sampleId})

stopAllSamplesOf(engine) == stopEach(engine, DOMAIN engine.active)

Engine == [active |-> activeSources, nodes |-> sources]

stopSample(sampleId) ==
    /\ activeSources' = stopSampleOf(Engine, sampleId).active
    /\ sources' = stopSampleOf(Engine, sampleId).nodes
    /\ lastCall' = Call("stopSample", <<sampleId>>, Undefined)
    /\ UNCHANGED buffers
    /\ UNCHANGED exceptSources

stopAllSamples ==
    /\ activeSources' = stopAllSamplesOf(Engine).active
    /\ sources' = stopAllSamplesOf(Engine).nodes
    /\ lastCall' = Call("stopAllSamples", <<>>, Undefined)
    /\ UNCHANGED buffers
    /\ UNCHANGED exceptSources

\* A source that is not looped plays its buffer to the end.
sourceEnded(node) ==
    /\ node \in DOMAIN sources
    /\ sources[node].state = "playing"
    /\ ~sources[node].loop
    /\ sources' = [sources EXCEPT ![node].state = "ended"]
    /\ lastCall' = Call("ended", <<node>>, Undefined)
    /\ UNCHANGED <<buffers, activeSources>>
    /\ UNCHANGED exceptSources

----------------------------------------------------------------------------
(* The video elements of FileHandler (fileHandler.js) in playback *)

\* Most 'timeupdate' handlers one video element is given.
MaxHandlers == 3

\* The element document.createElement('video') returns, with the count of
\* the handlers made for it.
NewVideoElement ==
    [loop |-> FALSE, paused |-> TRUE, currentTime |-> 0, listeners |-> {},
     _loopHandler |-> Null, handlers |-> 0]

\* this.videoElements[sampleId], for a sample that has a video element.
VideoElement(sampleId) ==
    IF sampleId \in DOMAIN videoState THEN videoState[sampleId] ELSE NewVideoElement

\* video.removeEventListener('timeupdate', video._loopHandler), when there is
\* a _loopHandler.
RemoveLoopHandler(video) ==
    IF video._loopHandler # Null
    THEN [video EXCEPT !.listeners = @ \ {video._loopHandler[1]}]
    ELSE video

\* The loop branch of playVideoSample: a new handler is added and remembered.
loopBranch(video, points) ==
    LET handleTimeUpdate == video.handlers + 1
    IN  [video EXCEPT !.listeners = @ \cup {handleTimeUpdate},
                      !._loopHandler = <<handleTimeUpdate>>,
                      !.handlers = handleTimeUpdate,
                      !.currentTime = points.start]

\* playVideoSample(sampleId, loop) on the element of the sample.
playVideoSampleOf(video, lps, sampleId, loop) ==
    LET looped == [video EXCEPT !.loop = loop]
        branched == IF loop /\ sampleId \in DOMAIN lps
                    THEN loopBranch(looped, lps[sampleId])
                    ELSE [RemoveLoopHandler(looped) EXCEPT !._loopHandler = Null,
                                                           !.currentTime = 0]
    IN  [branched EXCEPT !.paused = FALSE]

playVideoSample(sampleId, loop) ==
    IF sampleId \notin DOMAIN videoElements
    THEN /\ lastCall' = Call("playVideoSample", <<sampleId, loop>>,
                             Thrown("Video sample not found"))
         /\ UNCHANGED videoState
         /\ UNCHANGED <<coreVars, audioVars>>
    ELSE LET video == playVideoSampleOf(VideoElement(sampleId), loopPoints, sampleId, loop)
         IN  /\ video.handlers <= MaxHandlers
             /\ videoState' = Put(videoState, sampleId, video)
             /\ lastCall' = Call("playVideoSample", <<sampleId, loop>>, Returned(sampleId))
             /\ UNCHANGED <<coreVars, audioVars>>

\* stopVideoSample(sampleId) on the element of the sample.
stopVideoSampleOf(video) == RemoveLoopHandler([video EXCEPT !.paused = TRUE])

stopVideoSample(sampleId) ==
    /\ IF sampleId \notin DOMAIN videoElements
       THEN UNCHANGED videoState
       ELSE videoState' = Put(videoState, sampleId, stopVideoSampleOf(VideoElement(sampleId)))
    /\ lastCall' = Call("stopVideoSample", <<sampleId>>, Undefined)
    /\ UNCHANGED <<coreVars, audioVars>>

\* The element fires 'timeupdate' at the time it plays: each handler that is
\* registered seeks back to the start of the region once its end is reached.
timeupdate(sampleId, time) ==
    /\ sampleId \in DOMAIN videoElements
    /\ sampleId \in DOMAIN loopPoints
    /\ ~VideoElement(sampleId).paused
    /\ time <= videoElements[sampleId].duration
    /\ videoState' = Put(videoState, sampleId,
            [VideoElement(sampleId) EXCEPT !.currentTime =
                IF VideoElement(sampleId).listeners # {}
                        /\ time >= loopPoints[sampleId].end
                THEN loopPoints[sampleId].start
                ELSE time])
    /\ lastCall' = Call("timeupdate", <<sampleId, time>>, Undefined)
    /\ UNCHANGED <<coreVars, audioVars>>

InitVideo == videoState = <<>>

----------------------------------------------------------------------------
(* FilterEffect (filter.js) *)

\* Q is kept in ten-thousandths, the resolution of its lower limit 0.0001.
QScale == 10000

\* this.filterTypes
filterTypes == {"lowpass", "highpass", "bandpass", "lowshelf", "highshelf",
                "peaking", "notch", "allpass"}

\* Values a caller may pass: a type that is known, unknown or empty, and
\* numbers below, inside and above the limits of each parameter, 0 included.
TypeInputs == {"highpass", "chorus", ""}
FrequencyInputs == {0, 440, 30000}
QInputs == {0, 2 * QScale}
GainInputs == {-50, 0, 12}

\* A field of a params object: absent, or <<value>>.
Optional(values) == {Null} \cup {<<v>> : v \in values}

ParamsInputs ==
    [type : Optional(TypeInputs), frequency : Optional(FrequencyInputs),
     Q : Optional(QInputs), gain : Optional(GainInputs)]

setTypeOf(filter, type) ==
    IF type \in filterTypes THEN [filter EXCEPT !.type = type] ELSE filter

setFrequencyOf(filter, frequency) ==
    [filter EXCEPT !.frequency = Max(20, Min(20000, frequency))]

setQOf(filter, q) ==
    [filter EXCEPT !.Q = Max(1, Min(1000 * QScale, q))]

setGainOf(filter, gain) ==
    [filter EXCEPT !.gain = Max(-40, Min(40, gain))]

\* if (params.type): the field is present and its value is not ''.
TruthyString(field) == field # Null /\ field[1] # ""

\* if (params.frequency), and likewise Q and gain: the field is present and
\* its value is not 0.
TruthyNumber(field) == field # Null /\ field[1] # 0

\* setParams(params)
setParamsOf(filter, params) ==
    LET typed == IF TruthyString(params.type) THEN setTypeOf(filter, params.type[1]) ELSE filter
        tuned == IF TruthyNumber(params.frequency)
                 THEN setFrequencyOf(typed, params.frequency[1]) ELSE typed
        shaped == IF TruthyNumber(params.Q) THEN setQOf(tuned, params.Q[1]) ELSE tuned
    IN  IF TruthyNumber(params.gain) THEN setGainOf(shaped, params.gain[1]) ELSE shaped

setType(type) ==
    /\ filterEffect' = setTypeOf(filterEffect, type)
    /\ lastCall' = Call("setType", <<type>>, Undefined)
    /\ UNCHANGED exceptFilter

setFrequency(frequency) ==
    /\ filterEffect' = setFrequencyOf(filterEffect, frequency)
    /\ lastCall' = Call("setFrequency", <<frequency>>, Undefined)
    /\ UNCHANGED exceptFilter

setQ(q) ==
    /\ filterEffect' = setQOf(filterEffect, q)
    /\ lastCall' = Call("setQ", <<q>>, Undefined)
    /\ UNCHANGED exceptFilter

setGain(gain) ==
    /\ filterEffect' = setGainOf(filterEffect, gain)
    /\ lastCall' = Call("setGain", <<gain>>, Undefined)
    /\ UNCHANGED exceptFilter

setParams(params) ==
    /\ filterEffect' = setParamsOf(filterEffect, params)
    /\ lastCall' = Call("setParams", <<params>>, Undefined)
    /\ UNCHANGED exceptFilter

InitFilter ==
    filterEffect = [type |-> "lowpass", frequency |-> 20000, Q |-> QScale, gain |-> 0]

\* addActiveSource(sampleId, source), which App calls on its engine: the node
\* is kept under the sample id, as playSample keeps the nodes it starts.
addActiveSourceOf(engine, sampleId, source) ==
    [active |-> Put(engine.active, sampleId, Len(engine.nodes) + 1),
     nodes |-> Append(engine.nodes, StartedSource(sampleId, source.loop))]

\* App.playSample(sampleId) on the engine's [active, nodes].
App_playSampleEngine(engine, bufs, lps, sampleId) ==
    LET started == App_playSampleOf(bufs, lps, sampleId)
    IN  IF started = Undefined
        THEN engine
        ELSE addActiveSourceOf(engine, sampleId, started.val)

\* App.playSample(sampleId) of main.js, e.g. from the play button of a sample.
App_playSample(sampleId) ==
    LET engine == App_playSampleEngine(Engine, audioBuffers, loopPoints, sampleId)
    IN  /\ Len(engine.nodes) <= MaxSources
        /\ activeSources' = engine.active
        /\ sources' = engine.nodes
        /\ lastCall' = Call("App.playSample", <<sampleId>>,
                            App_playSampleOf(audioBuffers, loopPoints, sampleId))
        /\ before' = {}
        /\ UNCHANGED fileVars
        /\ UNCHANGED <<layers, batch, buffers, dissectorVars, sequencerVars, videoState, filterEffect>>

----------------------------------------------------------------------------
(* The step sequencer of App (main.js) *)

\* Most timers setInterval creates in one behaviour.
MaxTimers == 3

\* this.currentBPM and this.totalSteps of the constructor.
InitialBPM == 120
InitialSteps == 16

\* Tempos and step counts the controls may pass.
TempoInputs == {90, InitialBPM}
StepCountInputs == {2, InitialSteps}

\* The samples a cell of the sequencer grid may name.
CellSamples == {<<"a">>}

Running == {id \in DOMAIN intervals : intervals[id] = "running"}

\* clearInterval(handle): nothing for null or for a timer cleared before.
clearInterval(timers, handle) ==
    IF handle = Null THEN timers ELSE [timers EXCEPT ![handle[1]] = "cleared"]

\* pausePlayback() on [app, timers].
pausePlaybackOf(seq) ==
    [app |-> seq.app, timers |-> clearInterval(seq.timers, seq.app.sequencerInterval)]

\* startPlayback(): currentStep = 0 and a new timer, kept in sequencerInterval.
startPlaybackOf(seq) ==
    [app |-> [seq.app EXCEPT !.currentStep = 0,
                             !.sequencerInterval = <<Len(seq.timers) + 1>>],
     timers |-> Append(seq.timers, "running")]

\* togglePlay()
togglePlayOf(seq) ==
    LET toggled == [seq EXCEPT !.app.isPlaying = ~@]
    IN  IF toggled.app.isPlaying
        THEN startPlaybackOf(toggled)
        ELSE pausePlaybackOf(toggled)

\* The restart of updateTempo and changeStepCount without its pause.
restartOf_noPause(seq) ==
    IF seq.app.isPlaying THEN startPlaybackOf(seq) ELSE seq

\* if (this.isPlaying) { this.pausePlayback(); this.startPlayback(); }
restartOf(seq) ==
    IF seq.app.isPlaying THEN startPlaybackOf(pausePlaybackOf(seq)) ELSE seq

\* stopPlayback() up to the call on the engine.
stopPlaybackOf(seq) ==
    [pausePlaybackOf(seq) EXCEPT !.app.isPlaying = FALSE, !.app.currentStep = 0]

Sequencer == [app |-> app, timers |-> intervals]

togglePlay ==
    /\ Len(togglePlayOf(Sequencer).timers) <= MaxTimers
    /\ app' = togglePlayOf(Sequencer).app
    /\ intervals' = togglePlayOf(Sequencer).timers
    /\ lastCall' = Call("togglePlay", <<>>, Undefined)
    /\ UNCHANGED <<exceptSequencer, sourceVars>>

\* stopPlayback(): the engine call stops the sources the engine holds, as
\* stopAllSamples does.
stopPlayback ==
    /\ app' = stopPlaybackOf(Sequencer).app
    /\ intervals' = stopPlaybackOf(Sequencer).timers
    /\ activeSources' = stopAllSamplesOf(Engine).active
    /\ sources' = stopAllSamplesOf(Engine).nodes
    /\ lastCall' = Call("stopPlayback", <<>>, Undefined)
    /\ UNCHANGED buffers
    /\ UNCHANGED exceptSequencer

updateTempo(tempo) ==
    LET updated == restartOf([Sequencer EXCEPT !.app.currentBPM = tempo])
    IN  /\ Len(updated.timers) <= MaxTimers
        /\ app' = updated.app
        /\ intervals' = updated.timers
        /\ lastCall' = Call("updateTempo", <<tempo>>, Undefined)
        /\ UNCHANGED <<exceptSequencer, sourceVars>>

changeStepCount(stepCount) ==
    LET updated == restartOf([Sequencer EXCEPT !.app.totalSteps = stepCount,
                                               !.app.currentStep = 0])
    IN  /\ Len(updated.timers) <= MaxTimers
        /\ app' = updated.app
        /\ intervals' = updated.timers
        /\ lastCall' = Call("changeStepCount", <<stepCount>>, Undefined)
        /\ UNCHANGED <<exceptSequencer, sourceVars>>

\* stepCells.forEach: App.playSample for each active cell of the step.
RECURSIVE playEach(_, _)
playEach(engine, cells) ==
    IF cells = {}
    THEN engine
    ELSE LET sampleId == CHOOSE id \in cells : TRUE
         IN  playEach(App_playSampleEngine(engine, audioBuffers, loopPoints, sampleId),
                      cells \ {sampleId})

\* playNextStep(), called by the timer id: the samples of the active cells of
\* the current step are played and the sequencer moves to the next step.
playNextStep(id, cells) ==
    /\ id \in Running
    /\ Len(playEach(Engine, cells).nodes) <= MaxSources
    /\ activeSources' = playEach(Engine, cells).active
    /\ sources' = playEach(Engine, cells).nodes
    /\ app' = [app EXCEPT !.currentStep = (@ + 1) % app.totalSteps]
    /\ lastCall' = Call("playNextStep", <<id, cells>>, Undefined)
    /\ UNCHANGED <<intervals, buffers>>
    /\ UNCHANGED exceptSequencer

InitSequencer ==
    /\ app = [isPlaying |-> FALSE, currentBPM |-> InitialBPM, sequencerInterval |-> Null,
              currentStep |-> 0, totalSteps |-> InitialSteps]
    /\ intervals = <<>>

InitSources ==
    /\ buffers = {}
    /\ activeSources = <<>>
    /\ sources = <<>>

InitComponents ==
    /\ InitDissector
    /\ InitSources
    /\ InitSequencer
    /\ InitVideo
    /\ InitFilter

InitCall == Call("constructor", <<>>, Undefined)

InitEngine ==
    /\ layers = InitLayers

InitFileHandler ==
    /\ audioBuffers = <<>>
    /\ videoElements = <<>>
    /\ mediaSourceNodes = {}
    /\ loopPoints = <<>>
    /\ loads = <<>>
    /\ registered = <<>>
    /\ batch = NoBatch

InitLayerSpec ==
    /\ InitEngine
    /\ InitFileHandler
    /\ InitComponents
    /\ lastCall = InitCall
    /\ before = {}

\* The toggle calls on a configured layer.
ToggleOps == {"toggleLayerSolo", "toggleLayerMute"}

IsToggle(call) == call.op \in ToggleOps /\ call.args[1] \in LayerIds

NextLayers ==
    \/ initialize
    \/ updateLayerStates
    \/ \E layerId \in LayerIdInputs, value \in VolumeInputs : setLayerVolume(layerId, value)
    \/ \E layerId \in LayerIdInputs : toggleLayerSolo(layerId)
    \/ \E layerId \in LayerIdInputs : toggleLayerMute(layerId)

\* The layer mixer on its own.
LayerSpec == InitLayerSpec /\ [][NextLayers]_vars

InitFileSpec ==
    /\ InitEngine
    /\ InitFileHandler
    /\ InitComponents
    /\ lastCall = InitCall
    /\ before = {}

NextFiles ==
    \/ \E file \in Files : processAudioFile(file)
    \/ \E file \in Files : audioReaderOnerror(file)
    \/ \E file \in Files, decoded \in DecodeOutcomes : audioReaderOnload(file, decoded)
    \/ \E file \in Files : processVideoFile(file)
    \/ \E file \in Files : videoOnerror(file)
    \/ \E file \in Files, duration \in Durations, recorderFails \in BOOLEAN :
            videoOnloadedmetadata(file, duration, recorderFails)
    \/ \E file \in Files, decoded \in DecodeOutcomes : recorderOnstop(file, decoded)
    \/ \E sampleId \in SampleIdInputs : setLoopPoints(sampleId)
    \/ dispose

\* The file handler on its own: loading, setting loop points, disposing.
FileSpec == InitFileSpec /\ [][NextFiles]_vars

\* The files of one sample id, which an audio and a video file both map to;
\* the other sample id is never loaded.
SampleFiles == {f \in Files : sampleIdOf[f] = <<"a">>}

NextSamples ==
    \/ \E file \in SampleFiles : processAudioFile(file)
    \/ \E file \in SampleFiles : audioReaderOnerror(file)
    \/ \E file \in SampleFiles, decoded \in DecodeOutcomes : audioReaderOnload(file, decoded)
    \/ \E file \in SampleFiles : processVideoFile(file)
    \/ \E file \in SampleFiles : videoOnerror(file)
    \/ \E file \in SampleFiles, duration \in VideoDurations, recorderFails \in BOOLEAN :
            videoOnloadedmetadata(file, duration, recorderFails)
    \/ \E file \in SampleFiles, decoded \in DecodeOutcomes : recorderOnstop(file, decoded)
    \/ \E sampleId \in SampleIdInputs : setLoopPoints(sampleId)
    \/ \E sampleId \in SampleIdInputs : getLoopPoints(sampleId)
    \/ \E sampleId \in SampleIdInputs, loop \in BOOLEAN : playSample(sampleId, loop)
    \/ dispose

NextBatch ==
    \/ \E files \in SUBSET DroppedFiles : processFiles(files)
    \/ \E file \in Files : audioReaderOnerror(file)
    \/ \E file \in Files, decoded \in DecodeOutcomes : audioReaderOnload(file, decoded)
    \/ \E file \in Files : videoOnerror(file)
    \/ \E file \in Files, duration \in Durations, recorderFails \in BOOLEAN :
            videoOnloadedmetadata(file, duration, recorderFails)
    \/ \E file \in Files, decoded \in DecodeOutcomes : recorderOnstop(file, decoded)
    \/ \E file \in Files : thenLoaded(file)
    \/ \E file \in Files : catchError(file)
    \/ processFilesResume

\* The file handler loading the files of processFiles calls, one call at a time.
BatchSpec == InitFileSpec /\ [][NextBatch]_vars

\* One sample of the file handler, from its registration to its playback;
\* the video may be an empty media resource.
SampleSpec == InitFileSpec /\ [][NextSamples]_vars

----------------------------------------------------------------------------
(* Properties of the layer mixer *)

LayerOps == {"setLayerVolume", "toggleLayerSolo", "toggleLayerMute"}

\* The last call was a layer operation on an id that is not a configured layer.
UnknownLayerCall(call) == call.op \in LayerOps /\ call.args[1] \notin LayerIds

\* The last call ran updateLayerStates to its end.
UpdateRan == lastCall.op = "updateLayerStates" \/ IsToggle(lastCall)

SomeSolo == \E id \in LayerIds : layers[id].solo

\* The gain the resolution rule gives to a layer in the current state.
RuleGain(id) ==
    IF SomeSolo
        THEN (IF layers[id].solo THEN layers[id].volume ELSE 0)
        ELSE (IF layers[id].mute THEN 0 ELSE layers[id].volume)

Clamp(v, lo, hi) == IF v < lo THEN lo ELSE IF v > hi THEN hi ELSE v

\* C1: after any sequence of setLayerVolume, toggleLayerMute and
\* toggleLayerSolo calls, the gain applied to every layer is the gain the
\* resolution rule gives for the current state.
C1_AppliedGainFollowsRule ==
    \A id \in LayerIds :
        layers[id].gain # Null => layers[id].gain = <<RuleGain(id)>>

\* C2: solo dominance.  Once updateLayerStates has run in a state where some
\* layer is soloed, every non-soloed layer has gain 0 and every soloed layer
\* has its volume as gain, whatever their mute flags.
C2_SoloDominance ==
    (UpdateRan /\ SomeSolo) =>
        \A id \in LayerIds :
            layers[id].gain # Null =>
                layers[id].gain = <<IF layers[id].solo THEN layers[id].volume ELSE 0>>

\* A soloed and muted layer plays at its volume next to a silenced layer that
\* is neither muted nor at volume 0.
C2_Witness ==
    /\ UpdateRan
    /\ \E a, b \in LayerIds :
        /\ layers[a].solo /\ layers[a].mute
        /\ layers[a].volume # 0 /\ layers[a].gain = <<layers[a].volume>>
        /\ ~layers[b].solo /\ ~layers[b].mute
        /\ layers[b].volume # 0 /\ layers[b].gain = <<0>>

\* C3: no-solo case.  Once updateLayerStates has run in a state where no layer
\* is soloed, every muted layer has gain 0 and every other layer its volume;
\* initialize leaves all gains at 1, and muting mid from there gives
\* bass 1, mid 0, high 1.
C3_NoSoloMuteRule ==
    /\ (UpdateRan /\ ~SomeSolo) =>
            \A id \in LayerIds :
                layers[id].gain # Null =>
                    layers[id].gain = <<IF layers[id].mute THEN 0 ELSE layers[id].volume>>
    /\ lastCall.op = "initialize" =>
            \A id \in LayerIds : layers[id].gain = <<One>>
    /\ (lastCall.op = "toggleLayerMute" /\ lastCall.args = <<"mid">>
            /\ before = {createFrequencyLayers(InitLayers)}) =>
            /\ layers["bass"].gain = <<One>>
            /\ layers["mid"].gain = <<0>>
            /\ layers["high"].gain = <<One>>

\* mid was muted right after initialize.
C3_Witness ==
    /\ lastCall.op = "toggleLayerMute" /\ lastCall.args = <<"mid">>
    /\ before = {createFrequencyLayers(InitLayers)}
    /\ layers["mid"].mute /\ layers["mid"].gain = <<0>>

\* C4: after setLayerVolume(layer, v) on a configured layer the stored volume
\* is clamp(v, 0, 1), and every stored volume is within [0,1].
C4_VolumeClamped ==
    /\ (lastCall.op = "setLayerVolume" /\ lastCall.args[1] \in LayerIds) =>
            layers[lastCall.args[1]].volume = Clamp(lastCall.args[2], 0, One)
    /\ \A id \in LayerIds : layers[id].volume >= 0 /\ layers[id].volume <= One

\* C5: the gain applied to each layer lies in [0,1].
C5_GainInUnitRange ==
    \A id \in LayerIds :
        layers[id].gain # Null => (layers[id].gain[1] >= 0 /\ layers[id].gain[1] <= One)

\* C6 as stated: a layer operation on an unknown layer id reports an error.
C6_UnknownLayerReported ==
    UnknownLayerCall(lastCall) => lastCall.ret.kind = "throw"

\* C6: a layer operation on an unknown layer id returns undefined, reports
\* nothing, and leaves the volume, mute, solo and gain of every layer as
\* they were.
C6_UnknownLayerIgnored ==
    [][UnknownLayerCall(lastCall') =>
            (lastCall'.ret = Undefined /\ layers' = layers)]_vars

\* A toggle was called on an unknown layer while some layer is muted.
C6_Witness ==
    /\ UnknownLayerCall(lastCall)
    /\ lastCall.op = "toggleLayerMute"
    /\ \E id \in LayerIds : layers[id].gain # Null /\ layers[id].mute

\* The flags and volumes of ls2 are those of ls1, but for flag f of layer id.
SameBut(ls1, ls2, id, f) ==
    \A l \in LayerIds :
        /\ ls2[l].volume = ls1[l].volume
        /\ (l # id \/ f # "mute") => ls2[l].mute = ls1[l].mute
        /\ (l # id \/ f # "solo") => ls2[l].solo = ls1[l].solo

\* C7: a toggle on a configured layer flips exactly that flag of that layer
\* and returns its new value; two consecutive toggles of the same flag restore
\* the state and the applied gains the first one started from.
C7_ToggleFlipsAndRestores ==
    [][IsToggle(lastCall') =>
        LET id == lastCall'.args[1]
            f == IF lastCall'.op = "toggleLayerMute" THEN "mute" ELSE "solo"
        IN  /\ SameBut(layers, layers', id, f)
            /\ layers'[id][f] = ~layers[id][f]
            /\ lastCall'.ret = Returned(layers'[id][f])
            /\ (lastCall.op = lastCall'.op /\ lastCall.args = lastCall'.args) =>
                    before = {layers'}]_vars

----------------------------------------------------------------------------
(* Properties of the file handler's loop points *)

\* A region lies inside a duration d.
ValidRegion(start, end, d) == 0 <= start /\ start < end /\ end <= d

\* The durations stored for a sample id: that of its buffer, that of its video.
StoredDurations(id) ==
    {audioBuffers[i].duration : i \in DOMAIN audioBuffers \cap {id}}
        \cup {videoElements[i].duration : i \in DOMAIN videoElements \cap {id}}

\* C8: every stored loop region satisfies 0 <= start < end <= duration, for
\* the duration of the buffer or of the video stored for its sample id.
C8_RegionWithinDuration ==
    \A id \in DOMAIN loopPoints :
        \E d \in StoredDurations(id) :
            ValidRegion(loopPoints[id].start, loopPoints[id].end, d)

InvalidRegionErrors == {"Invalid loop start time", "Invalid loop end time"}

\* C9: on a registered sample, setLoopPoints(id, start, end) succeeds exactly
\* when 0 <= start < end <= the duration the sample was registered with, and
\* fails with an invalid-region error otherwise.
C9_SetRegionIffValid ==
    \A id \in DOMAIN registered, startTime \in StartInputs, endTime \in EndInputs :
        LET r == setLoopPointsOf(audioBuffers, videoElements, loopPoints,
                                 id, startTime, endTime)
        IN  IF ValidRegion(startTime, endTime, registered[id])
                THEN r.ret.kind = "value"
                ELSE r.ret.kind = "throw" /\ r.ret.msg \in InvalidRegionErrors

\* For whatever times a call is given, the region it stores on success is
\* made of exactly these times, and it is the one it returns.
StoresWhatItIsGiven ==
    \A id \in SampleIdInputs, startTime \in StartInputs, endTime \in EndInputs :
        LET r == setLoopPointsOf(audioBuffers, videoElements, loopPoints,
                                 id, startTime, endTime)
        IN  r.ret.kind = "value" =>
                /\ r.loopPoints[id] = [start |-> startTime, end |-> endTime]
                /\ r.ret.val = r.loopPoints[id]

\* C10: a failing setLoopPoints leaves the loop points of all samples as they
\* were; a successful one stores the start and the end it was given as the
\* region of its sample, both at once, and changes no other sample's region.
C10_SetRegionAllOrNothing ==
    /\ []StoresWhatItIsGiven
    /\ [][lastCall'.op = "setLoopPoints" =>
            LET id == lastCall'.args[1]
            IN  /\ lastCall'.ret.kind = "throw" => loopPoints' = loopPoints
                /\ lastCall'.ret.kind = "value" =>
                    /\ DOMAIN loopPoints' = DOMAIN loopPoints \cup {id}
                    /\ loopPoints'[id] = lastCall'.ret.val
                    /\ \A other \in DOMAIN loopPoints \ {id} :
                            loopPoints'[other] = loopPoints[other]]_vars

\* A call moved the start of one sample's region while another sample has a
\* region too.
C10_Witness ==
    /\ lastCall.op = "setLoopPoints"
    /\ lastCall.ret.kind = "value"
    /\ lastCall.ret.val.start > 0
    /\ \E other \in DOMAIN loopPoints : other # lastCall.args[1]

----------------------------------------------------------------------------
(* Properties of the sample registry: unknown samples, registration, play *)

\* No audio buffer and no video element is stored for the id.
Unregistered(id) == id \notin DOMAIN audioBuffers /\ id \notin DOMAIN videoElements

UnknownSample == Thrown("Sample not found")

\* C11: setLoopPoints on a sample id for which no audio buffer and no video
\* element is stored, be it never loaded or removed by dispose, fails with the
\* unknown-sample error whatever start and end it is given, and stores nothing.
C11_UnknownSampleRejected ==
    /\ \A id \in SampleIdInputs, startTime \in StartInputs, endTime \in EndInputs :
            Unregistered(id) =>
                setLoopPointsOf(audioBuffers, videoElements, loopPoints,
                                id, startTime, endTime)
                    = [loopPoints |-> loopPoints, ret |-> UnknownSample]
    /\ lastCall.op = "setLoopPoints" /\ Unregistered(lastCall.args[1]) =>
            lastCall.ret = UnknownSample
    /\ lastCall.op = "dispose" => \A id \in SampleIdInputs : Unregistered(id)

\* A call on an unregistered id was rejected while another sample is stored.
C11_Witness ==
    /\ lastCall.op = "setLoopPoints"
    /\ Unregistered(lastCall.args[1])
    /\ lastCall.ret = UnknownSample
    /\ DOMAIN audioBuffers # {}

\* C12 as claimed: getLoopPoints reports an error for a sample id that is not
\* registered, and never returns a value for it.
C12_UnknownSampleReported ==
    lastCall.op = "getLoopPoints" /\ Unregistered(lastCall.args[1]) =>
        lastCall.ret.kind = "throw"

\* C12, as the code has it: getLoopPoints never fails; it returns the stored
\* region of a sample id that has one, and null for an id that has none.
C12_RegionOrNull ==
    lastCall.op = "getLoopPoints" =>
        LET id == lastCall.args[1]
        IN  /\ lastCall.ret.kind = "value"
            /\ id \in DOMAIN loopPoints => lastCall.ret.val = <<loopPoints[id]>>
            /\ id \notin DOMAIN loopPoints => lastCall.ret.val = Null

\* getLoopPoints answered null for an unregistered id while another sample
\* has a region.
C12_Witness ==
    /\ lastCall.op = "getLoopPoints"
    /\ Unregistered(lastCall.args[1])
    /\ lastCall.ret = Returned(Null)
    /\ DOMAIN loopPoints # {}

\* The last step stored a sample: a decoded audio file, or a video's metadata.
AudioRegistered(call) == call.op = "fileReader.onload" /\ call.ret.kind = "value"
VideoRegistered(call) == call.op = "video.onloadedmetadata"
Registration(call) == AudioRegistered(call) \/ VideoRegistered(call)

\* The sample id a registration stored under, and the duration it stored.
RegisteredId(call) == sampleIdOf[FileOf(call.args[1])]
RegisteredDuration(call) ==
    IF AudioRegistered(call)
        THEN audioBuffers[RegisteredId(call)].duration
        ELSE videoElements[RegisteredId(call)].duration

\* Right after a registration the sample's loop points are {0, duration}.
RegistrationStoresFullRegion ==
    Registration(lastCall) =>
        LET id == RegisteredId(lastCall)
        IN  /\ id \in DOMAIN loopPoints
            /\ loopPoints[id] = [start |-> 0, end |-> RegisteredDuration(lastCall)]

\* C13: a registration with duration d (an audio file decoded, a video's
\* metadata loaded) creates the loop region {0, d}, and a getLoopPoints for the
\* sample right after it returns exactly {0, d}.
C13_RegisterThenGetRegion ==
    /\ []RegistrationStoresFullRegion
    /\ [][Registration(lastCall) /\ lastCall'.op = "getLoopPoints"
                /\ lastCall'.args[1] = RegisteredId(lastCall) =>
            lastCall'.ret =
                Returned(<<[start |-> 0, end |-> RegisteredDuration(lastCall)]>>)]_vars

\* A first registration of a sample of the longest duration.
C13_Witness ==
    /\ Registration(lastCall)
    /\ before = {Null}
    /\ loopPoints[RegisteredId(lastCall)] = [start |-> 0, end |-> MaxDuration]

\* C14: a registration whose duration is not positive fails with an
\* invalid-duration error and stores nothing: no video element, audio buffer
\* or loop region belongs to a sample of duration 0 or less.
C14_NonPositiveDurationRejected ==
    /\ \A id \in DOMAIN audioBuffers : audioBuffers[id].duration > 0
    /\ \A id \in DOMAIN videoElements : videoElements[id].duration > 0
    /\ \A id \in DOMAIN loopPoints : loopPoints[id].end > 0
    /\ Registration(lastCall) /\ lastCall.ret.kind # "throw" =>
            RegisteredDuration(lastCall) > 0

\* A registration of a sample id that had loop points already.
ReRegistration == Registration(lastCall) /\ before # {Null}

\* C15: registering a sample id that is registered already (the same file
\* again, or another file that maps to the same id) discards the region set
\* with setLoopPoints and stores {0, new duration}; and registering a sample
\* that is stored with that duration and its full region changes nothing.
C15_ReRegistrationResets ==
    /\ [](ReRegistration =>
            loopPoints[RegisteredId(lastCall)] =
                [start |-> 0, end |-> RegisteredDuration(lastCall)])
    /\ [][Registration(lastCall') =>
            LET id == RegisteredId(lastCall')
                media == IF AudioRegistered(lastCall') THEN audioBuffers ELSE videoElements
                media2 == IF AudioRegistered(lastCall') THEN audioBuffers' ELSE videoElements'
            IN  (/\ id \in DOMAIN media
                 /\ media[id] = media2[id]
                 /\ OrNull(loopPoints, id) = <<fullLoopPoints(media[id].duration)>>)
                    => stored' = stored]_vars

\* A registration discarded a region that started after 0.
C15_Witness ==
    /\ ReRegistration
    /\ \E old \in before : old[1].start > 0
    /\ loopPoints[RegisteredId(lastCall)].start = 0

\* The last call started a source node: FileHandler.playSample returned it,
\* App.playSample handed it on.
Played(call) ==
    \/ call.op = "playSample" /\ call.ret.kind = "value"
    \/ call.op = "App.playSample" /\ call.ret.kind = "started"

\* Only FileHandler.playSample takes a loop request; App.playSample has none.
LoopRequested(call) == call.op = "playSample" /\ call.args[2]

\* The source plays its whole buffer once.
FullPlayback(source) ==
    /\ source.loop = FALSE
    /\ source.loopStart = 0
    /\ source.loopEnd = 0

\* C16: a play request without looping starts a source that does not loop
\* and plays the whole buffer, whatever region is stored for the sample; no
\* play path turns looping on when it was not requested.
C16_NoLoopUnlessRequested ==
    Played(lastCall) /\ ~LoopRequested(lastCall) => FullPlayback(lastCall.ret.val)

\* C17: a play request with looping for a sample that has a stored region
\* starts a looping source whose loopStart and loopEnd are the start and the
\* end of that region as it is now.
C17_LoopOverStoredRegion ==
    Played(lastCall) /\ LoopRequested(lastCall)
            /\ lastCall.args[1] \in DOMAIN loopPoints =>
        LET source == lastCall.ret.val
            region == loopPoints[lastCall.args[1]]
        IN  /\ source.loop = TRUE
            /\ source.loopStart = region.start
            /\ source.loopEnd = region.end

\* A looping play over a region that setLoopPoints moved off the start.
C17_Witness ==
    /\ Played(lastCall)
    /\ LoopRequested(lastCall)
    /\ lastCall.ret.val.loop
    /\ lastCall.ret.val.loopStart > 0
    /\ lastCall.ret.val.loopEnd = MaxDuration

\* C18: a play request with looping for a sample that has no stored region
\* starts a source that does not loop and plays the whole buffer.
C18_LoopWithoutRegionDegrades ==
    Played(lastCall) /\ LoopRequested(lastCall)
            /\ lastCall.args[1] \notin DOMAIN loopPoints =>
        FullPlayback(lastCall.ret.val)

\* C19: right after dispose nothing is stored: no audio buffer, video
\* element, media source node or loop region under any sample id;
\* getLoopPoints answers no region for every id, getAllSamples is empty, and
\* setLoopPoints and playSample fail as for an unknown sample for every id
\* that was stored before.
C19_DisposeClearsAll ==
    lastCall.op = "dispose" =>
        /\ DOMAIN audioBuffers = {}
        /\ DOMAIN videoElements = {}
        /\ mediaSourceNodes = {}
        /\ DOMAIN loopPoints = {}
        /\ \A id \in SampleIdInputs : getLoopPointsOf(loopPoints, id) = Null
        /\ getAllSamplesOf(audioBuffers, videoElements, loopPoints) = {}
        /\ \A ids \in before : \A id \in ids :
                /\ \A startTime \in StartInputs, endTime \in EndInputs :
                        setLoopPointsOf(audioBuffers, videoElements, loopPoints,
                                        id, startTime, endTime).ret = UnknownSample
                /\ \A loop \in BOOLEAN :
                        playSampleOf(audioBuffers, loopPoints, id, loop) = UnknownSample

\* dispose ran while every sample id was stored.
C19_Witness ==
    /\ lastCall.op = "dispose"
    /\ before = {SampleIds}

----------------------------------------------------------------------------
(* Properties of processFiles *)

\* How many times x occurs in seq.
Count(seq, x) == Cardinality({i \in 1..Len(seq) : seq[i] = x})

\* How many times a file occurs in the three result lists of the call.
Reported(name) ==
    Count(batch.loaded, name) + Count(batch.errors, name) + Count(batch.unsupported, name)

----------------------------------------------------------------------------
(* The song dissector on its own *)

NextDissector ==
    \/ \E file \in DissectorFiles : processFile(file)
    \/ \E r \in 1..MaxRuns : fileReaderOnerror(r)
    \/ \E r \in 1..MaxRuns : fileReaderOnload(r)
    \/ \E r \in 1..MaxRuns : videoOnloadedmetadataStart(r)
    \/ \E r \in 1..MaxRuns : videoOnloadedmetadataThrows(r)
    \/ \E r \in 1..MaxRuns : dissectorVideoOnerror(r)
    \/ \E r \in 1..MaxRuns : mediaRecorderOnstop(r)
    \/ \E r \in 1..MaxRuns : decodeFails(r)
    \/ \E r \in 1..MaxRuns : decodeResolves(r)
    \/ \E r \in 1..MaxRuns : simulateProcessingTick(r)

DissectorSpec == InitLayerSpec /\ [][NextDissector]_vars

\* The run whose processFile call has not ended, if any: the last one.
LiveRuns == {r \in DOMAIN runs : runs[r].promise = "pending" \/ runs[r].stage = "separating"}

TypeOKDissector ==
    /\ songDissector.isProcessing \in BOOLEAN
    /\ Cardinality(LiveRuns) <= 1
    /\ songDissector.isProcessing <=> LiveRuns # {}

----------------------------------------------------------------------------
(* Properties of the song dissector *)

\* An MP4 file, which passes the validation of processFile.
Mp4File == <<[type |-> "video/mp4"]>>

\* C21: a processFile call made while isProcessing is true is rejected with
\* "Already processing a file"; it changes neither isProcessing nor progress,
\* invokes no callback and leaves the run in progress where it was.
C21_BusyCallRejected ==
    [][(songDissector.isProcessing /\ lastCall'.op = "processFile")
       => /\ lastCall'.ret = Thrown("Already processing a file")
          /\ UNCHANGED <<songDissector, callbackLog, runs>>]_vars

\* A second MP4 file was passed while the first was being separated.
C21_Witness ==
    /\ lastCall = Call("processFile", <<Mp4File>>, Thrown("Already processing a file"))
    /\ songDissector.isProcessing
    /\ \E r \in DOMAIN runs : runs[r].stage = "separating" /\ runs[r].currentStep > 0

\* The values onProgressUpdate received during the last accepted processFile
\* call: up to the end of the call once it has ended.
RunLog ==
    IF callbackLog.ended = 0
    THEN callbackLog.progress
    ELSE SubSeq(callbackLog.progress, 1, callbackLog.ended)

NonDecreasing(s) == \A i, j \in DOMAIN s : i <= j => s[i] <= s[j]

ProgressInRange == songDissector.progress \in 0..(100 * Percent)

RunStartsAtZero == runs # <<>> => RunLog[1] = 0

\* The last accepted call has completed successfully.
RunCompleted == runs # <<>> /\ runs[Len(runs)].stage = "done"

HundredIffCompleted ==
    (\E i \in DOMAIN RunLog : RunLog[i] = 100 * Percent) <=> RunCompleted

\* C22: progress is always within [0,100]; within one accepted processFile run
\* the values passed to onProgressUpdate are non-decreasing, start at 0 and
\* reach 100 exactly when the run completes successfully.
C22_ProgressMonotone ==
    /\ ProgressInRange
    /\ NonDecreasing(RunLog)
    /\ RunStartsAtZero
    /\ HundredIffCompleted

\* The last accepted processFile call has ended: its extraction was rejected
\* or its separation is done.
RunEnded ==
    /\ runs # <<>>
    /\ \/ runs[Len(runs)].promise = "rejected"
       \/ runs[Len(runs)].stage = "done"

RunFailed == runs # <<>> /\ runs[Len(runs)].promise = "rejected"

\* A call in progress has invoked neither callback; a call that has ended left
\* isProcessing false and invoked onDissectionComplete once if it succeeded,
\* onDissectionError once if it failed, and not the other one.
OneCallbackPerRun ==
    /\ (runs # <<>> /\ ~RunEnded) =>
          /\ songDissector.isProcessing
          /\ callbackLog.complete = 0 /\ callbackLog.error = 0
    /\ RunEnded => ~songDissector.isProcessing
    /\ RunCompleted => callbackLog.complete = 1 /\ callbackLog.error = 0
    /\ RunFailed => callbackLog.complete = 0 /\ callbackLog.error = 1

\* A processFile call that is rejected at validation invokes no callback and
\* leaves isProcessing as it was.
RejectedCallIsInert ==
    (lastCall'.op = "processFile" /\ lastCall'.ret.kind = "throw")
    => /\ songDissector'.isProcessing = songDissector.isProcessing
       /\ callbackLog' = callbackLog

----------------------------------------------------------------------------
(* The buffer sources of the audio engine on their own *)

NextSources ==
    \/ \E sampleId \in EngineSampleIds, decoded \in BOOLEAN :
          loadAudioFileOnload(sampleId, decoded)
    \/ \E sampleId \in EngineSampleIds, layered \in BOOLEAN :
          AudioEngine_playSample(sampleId, layered)
    \/ \E sampleId \in EngineSampleIds : stopSample(sampleId)
    \/ stopAllSamples
    \/ \E node \in 1..MaxSources : sourceEnded(node)

SourceSpec == InitLayerSpec /\ [][NextSources]_vars

Playing == {node \in DOMAIN sources : sources[node].state = "playing"}

\* C24: after stopAllSamples no source started through playSample is still
\* playing and activeSources is empty, whatever playSample and stopSample
\* calls preceded, the same sample id started more than once included.
C24_StopAllStopsAll ==
    lastCall.op = "stopAllSamples" => (activeSources = <<>> /\ Playing = {})

\* After stopAllSamples the engine holds no active source.
ActiveSourcesEmptied ==
    lastCall.op = "stopAllSamples" => activeSources = <<>>

----------------------------------------------------------------------------
(* The step sequencer with one audio sample *)

\* The audio file of the sample the cells name.
CellFiles == {f \in SampleFiles : isAudioFile(f)}

NextSequencer ==
    \/ \E file \in CellFiles : processAudioFile(file)
    \/ \E file \in CellFiles, decoded \in DecodeOutcomes : audioReaderOnload(file, decoded)
    \/ \E sampleId \in CellSamples : App_playSample(sampleId)
    \/ togglePlay
    \/ stopPlayback
    \/ \E tempo \in TempoInputs : updateTempo(tempo)
    \/ \E stepCount \in StepCountInputs : changeStepCount(stepCount)
    \/ \E id \in 1..MaxTimers, cells \in SUBSET CellSamples : playNextStep(id, cells)

SequencerSpec == InitLayerSpec /\ [][NextSequencer]_vars

\* C28: at most one step timer exists at any time, and one exists exactly
\* when isPlaying is true, under every interleaving of togglePlay,
\* stopPlayback, updateTempo, changeStepCount and timer ticks.
C28_OneTimerIffPlaying ==
    /\ Cardinality(Running) <= 1
    /\ Running # {} <=> app.isPlaying

\* A tempo or step-count change replaced the timer of a playing sequencer.
C28_Witness ==
    /\ lastCall.op \in {"updateTempo", "changeStepCount"}
    /\ app.isPlaying
    /\ Len(intervals) = 2
    /\ Running = {2}
    /\ app.sequencerInterval = <<2>>

\* stopPlayback leaves no running timer, isPlaying false and currentStep 0.
StopResetsSequencer ==
    lastCall.op = "stopPlayback" =>
        /\ Running = {}
        /\ ~app.isPlaying
        /\ app.currentStep = 0

\* stopPlayback leaves no source playing.
StopSilencesSources == lastCall.op = "stopPlayback" => Playing = {}

\* A togglePlay right after stopPlayback starts playback with one timer.
TogglePlayAfterStop ==
    (lastCall.op = "stopPlayback" /\ lastCall'.op = "togglePlay")
    => (app'.isPlaying /\ Cardinality({id \in DOMAIN intervals' : intervals'[id] = "running"}) = 1)

StopThenToggle == []StopResetsSequencer /\ [][TogglePlayAfterStop]_vars

----------------------------------------------------------------------------
(* The video element of one sample in playback *)

VideoFiles == {f \in SampleFiles : isVideoFile(f)}

NextVideo ==
    \/ \E file \in VideoFiles : processVideoFile(file)
    \/ \E file \in VideoFiles, duration \in Durations, recorderFails \in BOOLEAN :
            videoOnloadedmetadata(file, duration, recorderFails)
    \/ \E file \in VideoFiles, decoded \in DecodeOutcomes : recorderOnstop(file, decoded)
    \/ \E sampleId \in SampleIdInputs, loop \in BOOLEAN : playVideoSample(sampleId, loop)
    \/ \E sampleId \in SampleIdInputs : stopVideoSample(sampleId)
    \/ \E sampleId \in SampleIdInputs, time \in VideoDurations : timeupdate(sampleId, time)

VideoSpec == InitLayerSpec /\ [][NextVideo]_vars

\* The last call stopped the video of a sample or played it without looping.
LoopEnded(call) ==
    /\ \/ call.op = "stopVideoSample"
       \/ call.op = "playVideoSample" /\ call.args[2] = FALSE
    /\ call.args[1] \in DOMAIN videoElements

\* C26: after stopVideoSample(id), or after playVideoSample(id, false), no
\* 'timeupdate' loop handler that an earlier playVideoSample(id, true)
\* installed is still registered on the video element, whatever play and stop
\* calls preceded, several playVideoSample(id, true) in a row included.
C26_NoLoopHandlerLeft ==
    LoopEnded(lastCall) => VideoElement(lastCall.args[1]).listeners = {}

\* The handler that _loopHandler names is never left registered.
LastHandlerRemoved ==
    LoopEnded(lastCall) =>
        LET video == VideoElement(lastCall.args[1])
        IN  video.listeners \subseteq (1..video.handlers) \ {video.handlers}

----------------------------------------------------------------------------
(* The filter effect on its own *)

NextFilter ==
    \/ \E type \in TypeInputs : setType(type)
    \/ \E frequency \in FrequencyInputs : setFrequency(frequency)
    \/ \E q \in QInputs : setQ(q)
    \/ \E gain \in GainInputs : setGain(gain)
    \/ \E params \in ParamsInputs : setParams(params)

FilterSpec == InitLayerSpec /\ [][NextFilter]_vars

\* The filter after setType, setFrequency, setQ and setGain are called for
\* the fields that are present in params.
BySetters(filter, params) ==
    LET typed == IF params.type # Null THEN setTypeOf(filter, params.type[1]) ELSE filter
        tuned == IF params.frequency # Null
                 THEN setFrequencyOf(typed, params.frequency[1]) ELSE typed
        shaped == IF params.Q # Null THEN setQOf(tuned, params.Q[1]) ELSE tuned
    IN  IF params.gain # Null THEN setGainOf(shaped, params.gain[1]) ELSE shaped

\* C27: the state after setParams(params) is the state after setType,
\* setFrequency, setQ and setGain are called for each field present in params,
\* numeric fields whose value is 0 included; absent fields are left unchanged.
C27_SetParamsIsSetters ==
    [][lastCall'.op = "setParams"
       => filterEffect' = BySetters(filterEffect, lastCall'.args[1])]_vars

\* setParams leaves the parameters of absent fields unchanged.
AbsentFieldsKept ==
    [][lastCall'.op = "setParams" =>
        LET params == lastCall'.args[1]
        IN  /\ params.type = Null => filterEffect'.type = filterEffect.type
            /\ params.frequency = Null => filterEffect'.frequency = filterEffect.frequency
            /\ params.Q = Null => filterEffect'.Q = filterEffect.Q
            /\ params.gain = Null => filterEffect'.gain = filterEffect.gain]_vars

====
